---- MODULE Spec2Model ----
(***************************************************************************)
(* Model of plot/plot.py: the post-processing script of the HMC / MLHMC    *)
(* lattice simulation.  The model covers magnetization_exact, the          *)
(* observable sanitization (append_observable), and the five plot          *)
(* functions base_plot, info_plot, check_thermalisation,                   *)
(* crit_int_auto_correlation_plot and                                      *)
(* crit_int_auto_correlation_plot_multiple_levels: their directory scans,  *)
(* the grouping and power-law fits of info_plot, and the selection of the  *)
(* data each figure shows.                                                 *)
(*                                                                         *)
(* Floating-point numbers are modelled as decimal floats: a finite value   *)
(* is mantissa * 10^exponent, next to +inf, -inf and NaN.  Rendering       *)
(* (matplotlib) is reduced to the data handed to each artist; scipy's      *)
(* curve_fit is an external solver whose outcome (returns / raises) is     *)
(* modelled, not its numerics.                                             *)
(***************************************************************************)
EXTENDS Integers, Sequences, FiniteSets, TLC

----------------------------------------------------------------------------
(* Bounds of the model *)

\* largest number of append_observable calls in one behaviour of SpecObs
MaxCalls == 2
\* largest number of run files in a scanned directory (Spec)
MaxFiles == 2
\* largest number of run files handed to info_plot in SpecInfo
MaxRuns == 3

----------------------------------------------------------------------------
(* Decimal floats *)

NaN == [k |-> "nan", m |-> 0, e |-> 0]
PosInf == [k |-> "inf", m |-> 1, e |-> 0]
NegInf == [k |-> "inf", m |-> -1, e |-> 0]

Abs(n) == IF n < 0 THEN -n ELSE n
Sgn(n) == IF n < 0 THEN -1 ELSE IF n > 0 THEN 1 ELSE 0

RECURSIVE Pow10(_)
Pow10(n) == IF n <= 0 THEN 1 ELSE 10 * Pow10(n - 1)

RECURSIVE Digits(_)
Digits(n) == IF n < 10 THEN 1 ELSE 1 + Digits(n \div 10)

\* the canonical form of mantissa * 10^exponent: no trailing zero in the
\* mantissa, and zero is 0 * 10^0
RECURSIVE Norm(_, _)
Norm(m, e) ==
    IF m = 0 THEN [k |-> "fin", m |-> 0, e |-> 0]
    ELSE IF m % 10 = 0 THEN Norm(m \div 10, e + 1)
    ELSE [k |-> "fin", m |-> m, e |-> e]

\* the float with value m * 10^e
F(m, e) == Norm(m, e)
\* an integer as a float
FromInt(n) == Norm(n, 0)

isinf(x) == x.k = "inf"
isnan(x) == x.k = "nan"
isfinite(x) == x.k = "fin"

\* a > b for two positive finite floats
PosGt(a, b) ==
    LET oa == Digits(a.m) + a.e
        ob == Digits(b.m) + b.e
        lo == IF a.e < b.e THEN a.e ELSE b.e
    IN  IF oa # ob THEN oa > ob
        ELSE a.m * Pow10(a.e - lo) > b.m * Pow10(b.e - lo)

\* IEEE comparison a > b: false as soon as one side is NaN
Gt(a, b) ==
    IF isnan(a) \/ isnan(b) THEN FALSE
    ELSE IF isinf(a) THEN a.m = 1 /\ b # PosInf
    ELSE IF isinf(b) THEN b.m = -1
    ELSE IF Sgn(a.m) # Sgn(b.m) THEN Sgn(a.m) > Sgn(b.m)
    ELSE IF a.m = 0 THEN FALSE
    ELSE IF a.m > 0 THEN PosGt(a, b)
    ELSE PosGt([b EXCEPT !.m = -b.m], [a EXCEPT !.m = -a.m])

\* floor of the integer square root
ISqrt(n) == CHOOSE r \in 0..n : r * r <= n /\ (r + 1) * (r + 1) > n

\* np.sqrt: NaN for NaN, for -inf and for negative values; +inf for +inf.
\* The root of a finite value is exact when the mantissa (taken at an even
\* exponent) is a perfect square, which is the case for every value the
\* model draws.
Sqrt(x) ==
    IF isnan(x) THEN NaN
    ELSE IF isinf(x) THEN (IF x.m = 1 THEN PosInf ELSE NaN)
    ELSE IF x.m < 0 THEN NaN
    ELSE LET odd == x.e % 2 # 0
             mm == IF odd THEN 10 * x.m ELSE x.m
             ee == IF odd THEN x.e - 1 ELSE x.e
         IN  Norm(ISqrt(mm), ee \div 2)

\* a + b for finite floats whose exponents are close (exact decimal sum)
Add(a, b) ==
    IF isnan(a) \/ isnan(b) THEN NaN
    ELSE IF isinf(a) THEN (IF isinf(b) /\ b.m # a.m THEN NaN ELSE a)
    ELSE IF isinf(b) THEN b
    ELSE LET lo == IF a.e < b.e THEN a.e ELSE b.e
         IN  Norm(a.m * Pow10(a.e - lo) + b.m * Pow10(b.e - lo), lo)

----------------------------------------------------------------------------
(* append_observable *)

\* the sanity threshold 1e200 of append_observable
Threshold == F(1, 200)
\* the sentinel appended for an unusable mean
BadValue == FromInt(-42)
\* the sentinel appended for an unusable variance
BadError == FromInt(42)

MeanKey == "bootstrap_mean"
MeanCkptKey == "bootstrap_mean_10000_100000"
VarianceKey == "bootstrap_variance"
VarianceCkptKey == "bootstrap_variance_10000_100000"

\* lines 55-59: the mean read from the attributes of the observable group
SelectMean(attrs) ==
    IF MeanCkptKey \in DOMAIN attrs THEN attrs[MeanCkptKey] ELSE attrs[MeanKey]

\* lines 65-69: the variance read from the attributes
SelectVariance(attrs) ==
    IF VarianceCkptKey \in DOMAIN attrs THEN attrs[VarianceCkptKey]
    ELSE attrs[VarianceKey]

\* lines 60-63: the value appended to observable_list
SanitizeMean(temp) ==
    IF isinf(temp) \/ Gt(temp, Threshold) THEN BadValue ELSE temp

\* SanitizeError without the NaN test of line 70
SanitizeError_NoNaNTest(temp) ==
    IF isinf(temp) \/ Gt(temp, Threshold) THEN BadError ELSE Sqrt(temp)

\* lines 70-73: the value appended to observable_error_list
SanitizeError(temp) ==
    IF isinf(temp) \/ Gt(temp, Threshold) \/ isnan(temp) THEN BadError
    ELSE Sqrt(temp)

\* the two lists after append_observable(name, group, ol, el), where attrs
\* are the attributes of group.get(name)
append_observable(attrs, ol, el) ==
    << Append(ol, SanitizeMean(SelectMean(attrs))),
       Append(el, SanitizeError(SelectVariance(attrs))) >>

----------------------------------------------------------------------------
(* State *)

VARIABLES
    \* which function of plot.py runs in this behaviour
    fn,
    \* the position in that function
    pc,
    \* the run files of the scanned directory that pass the name filter, in
    \* listing order
    dir,
    \* the number of run files the scan loop has finished
    idx,
    \* local variables holding h5py objects: the run file (0: none) each
    \* of f, level0_group, measurements_group, observable_group,
    \* level1_group and level_x_group refers to
    handles,
    \* the run files whose HDF5 handle is open
    open_files,
    \* append_observable driven directly: its two lists and the attributes
    \* of the observable group of the latest call
    observable_list, observable_error_list, group_attrs,
    \* base_plot: the per-run lists
    betas, inverse_betas,
    energies, energies_errors,
    magnetizations, magnetizations_errors,
    energies_squared, energies_squared_errors,
    magnetizations_squared, magnetizations_squared_errors,
    \* check_thermalisation: the data set kept per run file (0: the empty
    \* list appended when the observable is missing)
    observable_values,
    \* info_plot and the crit_int_auto_correlation plots: the per-run lists
    int_auto_correlation_time, int_auto_correlation_time_bias,
    int_auto_correlation_time_stat_error,
    gamma, system_size, tick_time, nu_pre_level1, nu_post_level1,
    \* crit_int_auto_correlation_plot_multiple_levels: per run the nu_pre
    \* of level1 .. level9
    nu_pre_level_x,
    \* info_plot: the label of the run read last
    label,
    \* info_plot: the loop index of the grouping loop
    gi,
    \* info_plot: the vectors of the two fit groups
    x_wo_bias_correction_hmc, y_wo_bias_correction_hmc,
    yerr_wo_bias_correction_hmc, y_w_bias_correction_hmc,
    x_wo_bias_correction_multi_hmc, y_wo_bias_correction_multi_hmc,
    yerr_wo_bias_correction_multi_hmc, y_w_bias_correction_multi_hmc,
    \* history: the index i of the run behind each point of the two groups
    runs_hmc, runs_multi_hmc,
    \* history: every curve_fit call so far with its outcome
    fit_log,
    \* the lines printed to the output report and whether the report file
    \* is open
    report, report_open,
    \* the exception that ended base_plot, check_thermalisation or one of
    \* the crit_int_auto_correlation plots ("": none)
    raised,
    \* base_plot: the inverse temperatures of the comparison curve, and the
    \* local variable m_exact (bound or not, and its value)
    beta_lin, m_exact,
    \* crit_int_auto_correlation_plot_multiple_levels: base_index
    base_index,
    \* what has been drawn on the axes, in drawing order: per artist its
    \* label, its x, y and yerr data, and the index i of the run behind
    \* each of its points (history)
    drawn

obsVars == << observable_list, observable_error_list, group_attrs >>
scanVars == << fn, pc, dir, idx, handles, open_files >>
baseVars == << betas, inverse_betas, energies, energies_errors, magnetizations,
               magnetizations_errors, energies_squared,
               energies_squared_errors, magnetizations_squared,
               magnetizations_squared_errors >>
runVars == << int_auto_correlation_time, int_auto_correlation_time_bias,
              int_auto_correlation_time_stat_error, gamma, system_size,
              tick_time, nu_pre_level1, nu_post_level1 >>
groupVars == << gi, x_wo_bias_correction_hmc, y_wo_bias_correction_hmc,
                yerr_wo_bias_correction_hmc, y_w_bias_correction_hmc,
                x_wo_bias_correction_multi_hmc,
                y_wo_bias_correction_multi_hmc,
                yerr_wo_bias_correction_multi_hmc,
                y_w_bias_correction_multi_hmc, runs_hmc, runs_multi_hmc >>
fitVars == << fit_log, report, report_open >>
plotVars == << raised, beta_lin, m_exact, base_index, drawn >>
vars == << obsVars, scanVars, baseVars, plotVars, observable_values, runVars,
           nu_pre_level_x, label, groupVars, fitVars >>

magnetization_name == "magnetization"
field_squared_name == "field_squared"
magnetization_squared_name == "magnetization_squared"
energy_name == "energy"
energy_squared_name == "energy_squared"

\* a local variable that is not bound yet
Unbound == [bound |-> FALSE, value |-> << >>]

NoHandles ==
    [f |-> 0, level0_group |-> 0, measurements_group |-> 0,
     observable_group |-> 0, level1_group |-> 0, level_x_group |-> 0]

\* the state of the variables other than fn, pc, dir and beta_lin before
\* any function has run
Idle ==
    /\ idx = 0
    /\ handles = NoHandles
    /\ open_files = {}
    /\ observable_list = << >>
    /\ observable_error_list = << >>
    /\ group_attrs = << >>
    /\ betas = << >>
    /\ inverse_betas = << >>
    /\ energies = << >> /\ energies_errors = << >>
    /\ magnetizations = << >> /\ magnetizations_errors = << >>
    /\ energies_squared = << >> /\ energies_squared_errors = << >>
    /\ magnetizations_squared = << >>
    /\ magnetizations_squared_errors = << >>
    /\ observable_values = << >>
    /\ int_auto_correlation_time = << >>
    /\ int_auto_correlation_time_bias = << >>
    /\ int_auto_correlation_time_stat_error = << >>
    /\ gamma = << >> /\ system_size = << >> /\ tick_time = << >>
    /\ nu_pre_level1 = << >> /\ nu_post_level1 = << >>
    /\ nu_pre_level_x = << >>
    /\ label = "abc"
    /\ gi = 0
    /\ x_wo_bias_correction_hmc = << >>
    /\ y_wo_bias_correction_hmc = << >>
    /\ yerr_wo_bias_correction_hmc = << >>
    /\ y_w_bias_correction_hmc = << >>
    /\ x_wo_bias_correction_multi_hmc = << >>
    /\ y_wo_bias_correction_multi_hmc = << >>
    /\ yerr_wo_bias_correction_multi_hmc = << >>
    /\ y_w_bias_correction_multi_hmc = << >>
    /\ runs_hmc = << >> /\ runs_multi_hmc = << >>
    /\ fit_log = << >>
    /\ report = << >>
    /\ report_open = FALSE
    /\ raised = ""
    /\ m_exact = Unbound
    /\ base_index = -1
    /\ drawn = << >>

----------------------------------------------------------------------------
(* append_observable called on arbitrary bootstrap statistics *)

\* bootstrap means a run file may carry
Means ==
    { NaN, PosInf, NegInf, F(1, 250), F(-1, 250), F(1, 200), F(-1, 200),
      F(2, 200), F(5, -1), F(-5, -1), F(0, 0) }

\* bootstrap variances a run file may carry
Variances ==
    { NaN, PosInf, NegInf, F(1, 250), F(1, 200), F(4, 200), F(4, -2),
      F(-1, 0), F(0, 0) }

\* the value of an unsuffixed attribute that a checkpointed one shadows
Shadowed == F(7, 0)

\* the attributes of an observable group whose selected mean is m and whose
\* selected variance is v; cm (cv) tells whether the mean (variance) is
\* stored under the checkpoint suffix _10000_100000
Attrs(m, v, cm, cv) ==
    (IF cm THEN (MeanCkptKey :> m) @@ (MeanKey :> Shadowed)
     ELSE (MeanKey :> m))
    @@
    (IF cv THEN (VarianceCkptKey :> v) @@ (VarianceKey :> Shadowed)
     ELSE (VarianceKey :> v))

InitObs ==
    /\ fn = "append_observable"
    /\ pc = "call"
    /\ dir = << >>
    /\ beta_lin = << >>
    /\ Idle

\* one call append_observable(name, group, observable_list,
\* observable_error_list)
CallAppendObservable ==
    /\ fn = "append_observable"
    /\ Len(observable_list) < MaxCalls
    /\ \E m \in Means, v \in Variances, cm \in BOOLEAN, cv \in BOOLEAN :
         LET attrs == Attrs(m, v, cm, cv)
             out == append_observable(attrs, observable_list,
                                      observable_error_list)
         IN  /\ group_attrs' = attrs
             /\ observable_list' = out[1]
             /\ observable_error_list' = out[2]
    /\ UNCHANGED << scanVars, baseVars, plotVars, observable_values, runVars,
                    nu_pre_level_x, label, groupVars, fitVars >>

NextObs == CallAppendObservable

SpecObs == InitObs /\ [][NextObs]_vars

----------------------------------------------------------------------------
(* Run files *)

\* 1 / x for a finite non-zero float whose mantissa divides a power of ten
\* (exact for every inverse temperature the model draws)
Recip(x) ==
    LET d == Digits(Abs(x.m)) + 2
    IN  Norm(Pow10(d) \div x.m, -x.e - d)

\* the unsuffixed attribute names of an autocorrelation estimate
TauKey == "int_auto_correlation_time"
TauBiasKey == "int_auto_correlation_time_bias"
TauErrKey == "int_auto_correlation_time_stat_error"

\* the attributes of an observable group: bootstrap statistics (mean m,
\* variance v, stored under the checkpoint suffix or not) and an unsuffixed
\* autocorrelation estimate (point estimate, bias, statistical error)
ObservableAttrs(m, v, ck, tau, bias, err) ==
    Attrs(m, v, ck, ck) @@ (TauKey :> tau) @@ (TauBiasKey :> bias)
    @@ (TauErrKey :> err)

\* A run file out_*.h5:
\*   meas      the observables under level0/measurements
\*   attrs     per observable, the attributes of its group
\*   ckpt      per observable, the checkpointed autocorrelation estimates:
\*             a function from the first sample i of the suffix _i_100000
\*             to the estimate stored under that suffix
\*   levels    the coarse levels n >= 1 whose group level<n> is in the file
\*   beta, gamma, tick_time, nu_pre[0], nu_post[0]   attributes of level0
\*   h         the number of lattice sites (the length of level0/h)
\*   nu_pre[n], nu_post[n]   attributes of level<n>
\* The i-th file of a directory carries tick time i, the autocorrelation
\* time 10 * i with bias i, and an inverse temperature that alternates
\* between 0.5 and 0.25, so that the runs of a directory differ.
RunFile(i, meas, good, levels, g, h, err, pre) ==
    [ meas |-> meas,
      attrs |-> [ n \in meas |->
                    IF good
                    THEN ObservableAttrs(F(5, -1), F(4, -2), FALSE,
                                         F(i, 1), FromInt(i), err)
                    ELSE ObservableAttrs(PosInf, NaN, TRUE,
                                         F(i, 1), FromInt(i), err) ],
      ckpt |-> [ n \in meas |-> << >> ],
      levels |-> levels,
      beta |-> IF i % 2 = 1 THEN F(5, -1) ELSE F(25, -2),
      gamma |-> g,
      tick_time |-> FromInt(i),
      h |-> h,
      nu_pre |-> [ n \in levels \cup {0} |-> IF n = 0 THEN 1 ELSE pre ],
      nu_post |-> [ n \in levels \cup {0} |-> 1 ] ]

\* the kinds of the files of a directory of at most n files: one kind of
\* Kinds per file
KindSeqs(Kinds, n) == UNION { [1..len -> Kinds] : len \in 0..n }

\* base_plot: which observables a file measures, and whether its bootstrap
\* statistics are usable
BaseKinds ==
    { {}, {energy_name}, {energy_squared_name}, {magnetization_squared_name},
      {magnetization_name, magnetization_squared_name},
      {energy_name, magnetization_name, energy_squared_name,
       magnetization_squared_name} } \X BOOLEAN
BaseFile(c, i) == RunFile(i, c[1], c[2], {}, 1, 16 * 16, F(1, 0), 1)

\* check_thermalisation: whether the file has the observable
ThermKinds == BOOLEAN
ThermFile(c, i) ==
    RunFile(i, IF c THEN {field_squared_name} ELSE {}, TRUE, {}, 1,
            16 * 16, F(1, 0), 1)

\* info_plot: whether the file has the observable, and for a file that
\* has it a profile (whether it has a level1 group, its gamma, its
\* statistical error) and its site count
InfoKinds(profiles, sizes) ==
    {<< FALSE, << FALSE, 1, F(1, 0) >>, 16 >>}
    \cup ({TRUE} \X profiles \X sizes)
InfoFile(c, i) ==
    RunFile(i, IF c[1] THEN {magnetization_name} ELSE {}, TRUE,
            IF c[2][1] THEN {1} ELSE {}, c[2][2], c[3], c[2][3], 1)

\* crit_int_auto_correlation_plot: whether the file has the observable, and
\* the pre-smoothing sweeps of its level1 (0: the file has no level1)
CritKinds == BOOLEAN \X {0, 1, 2, 513}
CritFile(c, i) ==
    RunFile(i, IF c[1] THEN {magnetization_name} ELSE {}, TRUE,
            IF c[2] = 0 THEN {} ELSE {1}, 1, 16 * 16, F(1, 0), c[2])

\* crit_int_auto_correlation_plot_multiple_levels: whether the file has
\* the observable, and its number of coarse levels
MultiKinds == BOOLEAN \X {0, 1, 9}
MultiFile(c, i) ==
    RunFile(i, IF c[1] THEN {magnetization_name} ELSE {}, TRUE,
            1..c[2], 1, 16 * 16, F(1, 0), 1)

Functions ==
    { "base_plot", "info_plot", "check_thermalisation",
      "crit_int_auto_correlation_plot",
      "crit_int_auto_correlation_plot_multiple_levels" }

\* the observable_name argument of the running function
observable_name ==
    IF fn = "check_thermalisation" THEN field_squared_name
    ELSE magnetization_name

----------------------------------------------------------------------------
(* HDF5 handles *)

\* the run files some live h5py object refers to: the local variables and
\* the data sets check_thermalisation keeps in observable_values
Referenced ==
    ({ handles[n] : n \in DOMAIN handles }
       \cup { observable_values[i] : i \in 1..Len(observable_values) })
    \ {0}

\* f = h5py.File(file, 'r'): the next run file is opened and bound to f;
\* the objects of the previous file are still bound to the other locals
OpenRunFile ==
    /\ pc = "scan"
    /\ idx < Len(dir)
    /\ handles' = [handles EXCEPT !.f = idx + 1]
    /\ open_files' = open_files \cup {idx + 1}
    /\ pc' = "read"
    /\ UNCHANGED << fn, dir, idx >>

\* no code closes a run file: its handle is released when the interpreter
\* collects the last object referring to it, which may be at once (CPython
\* reference counting), later, or never
GarbageCollect ==
    /\ fn \in Functions
    /\ open_files \ Referenced # {}
    /\ open_files' = open_files \cap Referenced
    /\ UNCHANGED << fn, pc, dir, idx, handles, obsVars, baseVars,
                    plotVars,
                    observable_values, runVars, nu_pre_level_x, label,
                    groupVars, fitVars >>

\* level0_group = f.get("level0");
\* measurements_group = level0_group.get("measurements")
BindLevel0(hd) ==
    [hd EXCEPT !.level0_group = hd.f, !.measurements_group = hd.f]

----------------------------------------------------------------------------
(* base_plot: the directory scan *)

base_open ==
    /\ fn = "base_plot"
    /\ OpenRunFile
    /\ UNCHANGED << obsVars, baseVars, plotVars, observable_values, runVars,
                    nu_pre_level_x, label, groupVars, fitVars >>

\* the lists ol, el after the block "if name in measurements_group:
\* append_observable(name, measurements_group, ol, el)"
AppendIfMeasured(name, file, ol, el) ==
    IF name \in file.meas THEN append_observable(file.attrs[name], ol, el)
    ELSE << ol, el >>

base_read ==
    /\ fn = "base_plot"
    /\ pc = "read"
    /\ LET file == dir[handles.f]
           e == AppendIfMeasured(energy_name, file, energies,
                                 energies_errors)
           m == AppendIfMeasured(magnetization_name, file, magnetizations,
                                 magnetizations_errors)
           e2 == AppendIfMeasured(energy_squared_name, file,
                                  energies_squared, energies_squared_errors)
           m2 == AppendIfMeasured(magnetization_squared_name, file,
                                  magnetizations_squared,
                                  magnetizations_squared_errors)
       IN  /\ handles' = BindLevel0(handles)
           /\ betas' = Append(betas, file.beta)
           /\ inverse_betas' = Append(inverse_betas, Recip(file.beta))
           /\ energies' = e[1] /\ energies_errors' = e[2]
           /\ magnetizations' = m[1] /\ magnetizations_errors' = m[2]
           /\ energies_squared' = e2[1]
           /\ energies_squared_errors' = e2[2]
           /\ magnetizations_squared' = m2[1]
           /\ magnetizations_squared_errors' = m2[2]
    /\ idx' = idx + 1
    /\ pc' = "scan"
    /\ UNCHANGED << fn, dir, open_files, obsVars, plotVars,
                    observable_values, runVars, nu_pre_level_x, label,
                    groupVars, fitVars >>

----------------------------------------------------------------------------
(* check_thermalisation: the directory scan *)

therm_open ==
    /\ fn = "check_thermalisation"
    /\ OpenRunFile
    /\ UNCHANGED << obsVars, baseVars, plotVars, observable_values, runVars,
                    nu_pre_level_x, label, groupVars, fitVars >>

therm_read ==
    /\ fn = "check_thermalisation"
    /\ pc = "read"
    /\ LET file == dir[handles.f]
       IN  IF observable_name \in file.meas
           THEN /\ handles' = [BindLevel0(handles) EXCEPT
                                 !.observable_group = handles.f]
                /\ observable_values' = Append(observable_values, handles.f)
           ELSE /\ handles' = BindLevel0(handles)
                /\ observable_values' = Append(observable_values, 0)
    /\ idx' = idx + 1
    /\ pc' = "scan"
    /\ UNCHANGED << fn, dir, open_files, obsVars, baseVars, plotVars, runVars,
                    nu_pre_level_x, label, groupVars, fitVars >>

----------------------------------------------------------------------------
(* The per-run lists of info_plot and the crit_int_auto_correlation plots *)

\* the first samples i of the suffixes _i_100000 that info_plot tries, in
\* the order of range(1000, 100001, 1000)
CkptStarts == { 1000 * j : j \in 1..100 }

\* lines 242-254: last_sufix, as the first sample of the suffix (0 for the
\* empty suffix): the first suffix of the loop that the group carries
LastSufix(ck) ==
    LET present == CkptStarts \cap DOMAIN ck
    IN  IF present = {} THEN 0
        ELSE CHOOSE i \in present : \A j \in present : i <= j

\* lines 261-264: the estimate read under last_sufix
Estimate(file, name) ==
    LET s == LastSufix(file.ckpt[name])
    IN  IF s = 0
        THEN [ tau |-> file.attrs[name][TauKey],
               bias |-> file.attrs[name][TauBiasKey],
               err |-> file.attrs[name][TauErrKey] ]
        ELSE file.ckpt[name][s]

\* lines 648-651 and 527-530: the unsuffixed estimate
PlainEstimate(file, name) ==
    [ tau |-> file.attrs[name][TauKey],
      bias |-> file.attrs[name][TauBiasKey],
      err |-> file.attrs[name][TauErrKey] ]

\* the appends every one of the three functions makes for a run with the
\* observable: the estimate est and the attributes of level0
AppendRun(file, est) ==
    /\ int_auto_correlation_time' = Append(int_auto_correlation_time, est.tau)
    /\ int_auto_correlation_time_bias' =
           Append(int_auto_correlation_time_bias, est.bias)
    /\ int_auto_correlation_time_stat_error' =
           Append(int_auto_correlation_time_stat_error, est.err)
    /\ gamma' = Append(gamma, file.gamma)
    /\ tick_time' = Append(tick_time, file.tick_time)

\* AppendLevel1 with 0 in place of the sentinel -1
AppendLevel1_ZeroForNoLevel1(file) ==
    IF 1 \in file.levels
    THEN /\ nu_pre_level1' = Append(nu_pre_level1, file.nu_pre[1])
         /\ nu_post_level1' = Append(nu_post_level1, file.nu_post[1])
    ELSE /\ nu_pre_level1' = Append(nu_pre_level1, 0)
         /\ nu_post_level1' = Append(nu_post_level1, 0)

\* lines 273-286 and 657-663: nu_pre_level1 and nu_post_level1 get the
\* sweeps of level1, or -1 for a file without level1
AppendLevel1(file) ==
    IF 1 \in file.levels
    THEN /\ nu_pre_level1' = Append(nu_pre_level1, file.nu_pre[1])
         /\ nu_post_level1' = Append(nu_post_level1, file.nu_post[1])
    ELSE /\ nu_pre_level1' = Append(nu_pre_level1, -1)
         /\ nu_post_level1' = Append(nu_post_level1, -1)

\* the handles after a read that found the observable: observable_group is
\* rebound, and level1_group too when the file has a level1
BindRun(hd, file) ==
    [BindLevel0(hd) EXCEPT
       !.observable_group = hd.f,
       !.level1_group = IF 1 \in file.levels THEN hd.f ELSE @]

----------------------------------------------------------------------------
(* info_plot *)

\* the label with gamma > 1 replaced by gamma > 2
RunLabel_WFromGamma3(has_level1, g) ==
    IF has_level1
    THEN (IF g > 2 THEN "MLHMC  W-cycle" ELSE "MLHMC V-cycle")
    ELSE "HMC"

\* lines 272-284: the label of a run
RunLabel(has_level1, g) ==
    IF has_level1
    THEN (IF g > 1 THEN "MLHMC  W-cycle" ELSE "MLHMC V-cycle")
    ELSE "HMC"

info_open ==
    /\ fn = "info_plot"
    /\ OpenRunFile
    /\ UNCHANGED << obsVars, baseVars, plotVars, observable_values, runVars,
                    nu_pre_level_x, label, groupVars, fitVars >>

\* lines 237-303: one run file is read
info_read ==
    /\ fn = "info_plot"
    /\ pc = "read"
    /\ LET file == dir[handles.f]
       IN  IF observable_name \in file.meas
           THEN /\ handles' = BindRun(handles, file)
                /\ AppendRun(file, Estimate(file, observable_name))
                /\ system_size' = Append(system_size, file.h)
                /\ label' = RunLabel(1 \in file.levels, file.gamma)
                /\ AppendLevel1(file)
           ELSE /\ handles' = BindLevel0(handles)
                /\ UNCHANGED << runVars, label >>
    /\ idx' = idx + 1
    /\ pc' = "scan"
    /\ UNCHANGED << fn, dir, open_files, obsVars, baseVars,
                    plotVars,
                    observable_values, nu_pre_level_x, groupVars, fitVars >>

\* lines 305-341: the scan is over; the lists become arrays and the fit
\* vectors start empty
info_prepare ==
    /\ fn = "info_plot"
    /\ pc = "scan"
    /\ idx = Len(dir)
    /\ gi' = 0
    /\ x_wo_bias_correction_hmc' = << >>
    /\ y_wo_bias_correction_hmc' = << >>
    /\ yerr_wo_bias_correction_hmc' = << >>
    /\ y_w_bias_correction_hmc' = << >>
    /\ x_wo_bias_correction_multi_hmc' = << >>
    /\ y_wo_bias_correction_multi_hmc' = << >>
    /\ yerr_wo_bias_correction_multi_hmc' = << >>
    /\ y_w_bias_correction_multi_hmc' = << >>
    /\ runs_hmc' = << >>
    /\ runs_multi_hmc' = << >>
    /\ pc' = "group"
    /\ UNCHANGED << fn, dir, idx, handles, open_files, obsVars, baseVars,
                    plotVars,
                    observable_values, runVars, nu_pre_level_x, label,
                    fitVars >>

\* lines 343 and 356: the point of a run enters the vectors of the HMC fit
InHmcFit(nu_pre, size) ==
    nu_pre = -1 /\ size < 33 * 33

\* InMultiFit with the cutoff 5 * 5 for the runs of the else branch
InMultiFit_Cutoff25(nu_pre, size) ==
    IF nu_pre = -1 THEN size < 33 * 33 /\ size < 5 * 5
    ELSE size < 5 * 5

\* lines 343, 356, 361 and 381: the point of a run enters the vectors of
\* the MLHMC fit
InMultiFit(nu_pre, size) ==
    IF nu_pre = -1 THEN size < 33 * 33 /\ size < 5 * 5
    ELSE size < 33 * 33

\* info_group with the bias of the first run added to every estimate
info_group_BiasOfFirstRun ==
    /\ fn = "info_plot"
    /\ pc = "group"
    /\ gi < Len(nu_pre_level1)
    /\ LET i == gi + 1
           x == Sqrt(FromInt(system_size[i]))
           y == int_auto_correlation_time[i]
           yw == Add(int_auto_correlation_time[i],
                     int_auto_correlation_time_bias[1])
           yerr == int_auto_correlation_time_stat_error[i]
       IN  /\ IF InHmcFit(nu_pre_level1[i], system_size[i])
              THEN /\ x_wo_bias_correction_hmc' =
                          Append(x_wo_bias_correction_hmc, x)
                   /\ y_wo_bias_correction_hmc' =
                          Append(y_wo_bias_correction_hmc, y)
                   /\ y_w_bias_correction_hmc' =
                          Append(y_w_bias_correction_hmc, yw)
                   /\ yerr_wo_bias_correction_hmc' =
                          Append(yerr_wo_bias_correction_hmc, yerr)
                   /\ runs_hmc' = Append(runs_hmc, i)
              ELSE UNCHANGED << x_wo_bias_correction_hmc,
                                y_wo_bias_correction_hmc,
                                y_w_bias_correction_hmc,
                                yerr_wo_bias_correction_hmc, runs_hmc >>
           /\ IF InMultiFit(nu_pre_level1[i], system_size[i])
              THEN /\ x_wo_bias_correction_multi_hmc' =
                          Append(x_wo_bias_correction_multi_hmc, x)
                   /\ y_wo_bias_correction_multi_hmc' =
                          Append(y_wo_bias_correction_multi_hmc, y)
                   /\ y_w_bias_correction_multi_hmc' =
                          Append(y_w_bias_correction_multi_hmc, yw)
                   /\ yerr_wo_bias_correction_multi_hmc' =
                          Append(yerr_wo_bias_correction_multi_hmc, yerr)
                   /\ runs_multi_hmc' = Append(runs_multi_hmc, i)
              ELSE UNCHANGED << x_wo_bias_correction_multi_hmc,
                                y_wo_bias_correction_multi_hmc,
                                y_w_bias_correction_multi_hmc,
                                yerr_wo_bias_correction_multi_hmc,
                                runs_multi_hmc >>
    /\ gi' = gi + 1
    /\ UNCHANGED << scanVars, obsVars, baseVars,
                    plotVars,
                    observable_values, runVars,
                    nu_pre_level_x, label, fitVars >>

\* lines 342-386: one iteration of the grouping loop
info_group ==
    /\ fn = "info_plot"
    /\ pc = "group"
    /\ gi < Len(nu_pre_level1)
    /\ LET i == gi + 1
           x == Sqrt(FromInt(system_size[i]))
           y == int_auto_correlation_time[i]
           yw == Add(int_auto_correlation_time[i],
                     int_auto_correlation_time_bias[i])
           yerr == int_auto_correlation_time_stat_error[i]
       IN  /\ IF InHmcFit(nu_pre_level1[i], system_size[i])
              THEN /\ x_wo_bias_correction_hmc' =
                          Append(x_wo_bias_correction_hmc, x)
                   /\ y_wo_bias_correction_hmc' =
                          Append(y_wo_bias_correction_hmc, y)
                   /\ y_w_bias_correction_hmc' =
                          Append(y_w_bias_correction_hmc, yw)
                   /\ yerr_wo_bias_correction_hmc' =
                          Append(yerr_wo_bias_correction_hmc, yerr)
                   /\ runs_hmc' = Append(runs_hmc, i)
              ELSE UNCHANGED << x_wo_bias_correction_hmc,
                                y_wo_bias_correction_hmc,
                                y_w_bias_correction_hmc,
                                yerr_wo_bias_correction_hmc, runs_hmc >>
           /\ IF InMultiFit(nu_pre_level1[i], system_size[i])
              THEN /\ x_wo_bias_correction_multi_hmc' =
                          Append(x_wo_bias_correction_multi_hmc, x)
                   /\ y_wo_bias_correction_multi_hmc' =
                          Append(y_wo_bias_correction_multi_hmc, y)
                   /\ y_w_bias_correction_multi_hmc' =
                          Append(y_w_bias_correction_multi_hmc, yw)
                   /\ yerr_wo_bias_correction_multi_hmc' =
                          Append(yerr_wo_bias_correction_multi_hmc, yerr)
                   /\ runs_multi_hmc' = Append(runs_multi_hmc, i)
              ELSE UNCHANGED << x_wo_bias_correction_multi_hmc,
                                y_wo_bias_correction_multi_hmc,
                                y_w_bias_correction_multi_hmc,
                                yerr_wo_bias_correction_multi_hmc,
                                runs_multi_hmc >>
    /\ gi' = gi + 1
    /\ UNCHANGED << scanVars, obsVars, baseVars,
                    plotVars,
                    observable_values, runVars,
                    nu_pre_level_x, label, fitVars >>

\* opt.curve_fit(fit_function, xdata, ydata, sigma=sigma) with the two
\* parameters a, z of fit_function: the outcomes the solver can have.  With
\* fewer data points than parameters the call raises; otherwise it returns
\* coefficients (popt, pcov) or raises when the least-squares iteration
\* does not converge, which the data decide.
curve_fit(xdata, ydata, sigma) ==
    IF Len(ydata) < 2 THEN {"raise"} ELSE {"ok", "raise"}

\* lines 394-396 and 410-412: whether the reduced chi-square
\* (((y - fit) / yerr) ** 2).sum() / (len(x) - len(popt)) is a finite
\* number: a zero error bar or len(x) = len(popt) = 2 divides by zero,
\* which numpy answers with inf or nan
chi2(xdata, yerr) ==
    IF Len(xdata) - 2 = 0 \/ \E j \in 1..Len(yerr) : yerr[j] = F(0, 0)
    THEN "nonfinite" ELSE "finite"

\* lines 388-403: the HMC fit; the report file is opened after the fit
\* returned, and the HMC line is printed to it
info_fit_hmc ==
    /\ fn = "info_plot"
    /\ pc = "group"
    /\ gi = Len(nu_pre_level1)
    /\ \E r \in curve_fit(x_wo_bias_correction_hmc,
                          y_wo_bias_correction_hmc,
                          yerr_wo_bias_correction_hmc) :
         /\ fit_log' = Append(fit_log, [fit |-> "HMC", y |-> "wo_bias",
                                        result |-> r])
         /\ IF r = "ok"
            THEN /\ handles' = [handles EXCEPT !.f = 0]
                 /\ report_open' = TRUE
                 /\ report' = Append(report,
                        [class |-> "HMC", observable |-> observable_name,
                         chi2 |-> chi2(x_wo_bias_correction_hmc,
                                       yerr_wo_bias_correction_hmc)])
                 /\ pc' = "fit_mlhmc"
            ELSE /\ pc' = "crashed"
                 /\ UNCHANGED << handles, report, report_open >>
    /\ UNCHANGED << fn, dir, idx, open_files, obsVars, baseVars,
                    plotVars,
                    observable_values, runVars, nu_pre_level_x, label,
                    groupVars >>

\* lines 405-418: the MLHMC fit; its line is printed and the report closed
info_fit_mlhmc ==
    /\ fn = "info_plot"
    /\ pc = "fit_mlhmc"
    /\ \E r \in curve_fit(x_wo_bias_correction_multi_hmc,
                          y_wo_bias_correction_multi_hmc,
                          yerr_wo_bias_correction_multi_hmc) :
         /\ fit_log' = Append(fit_log, [fit |-> "MLHMC", y |-> "wo_bias",
                                        result |-> r])
         /\ IF r = "ok"
            THEN /\ report' = Append(report,
                        [class |-> "MLHMC", observable |-> observable_name,
                         chi2 |-> chi2(x_wo_bias_correction_multi_hmc,
                                       yerr_wo_bias_correction_multi_hmc)])
                 /\ report_open' = FALSE
                 /\ pc' = "fit_hmc_bias"
            ELSE /\ pc' = "crashed"
                 /\ UNCHANGED << report, report_open >>
    /\ UNCHANGED << fn, dir, idx, handles, open_files, obsVars, baseVars,
                    plotVars,
                    observable_values, runVars, nu_pre_level_x, label,
                    groupVars >>

\* lines 422-426: the HMC fit of the bias-corrected estimates
info_fit_hmc_bias ==
    /\ fn = "info_plot"
    /\ pc = "fit_hmc_bias"
    /\ \E r \in curve_fit(x_wo_bias_correction_hmc,
                          y_w_bias_correction_hmc,
                          yerr_wo_bias_correction_hmc) :
         /\ fit_log' = Append(fit_log, [fit |-> "HMC", y |-> "w_bias",
                                        result |-> r])
         /\ pc' = IF r = "ok" THEN "fit_mlhmc_bias" ELSE "crashed"
    /\ UNCHANGED << fn, dir, idx, handles, open_files, obsVars, baseVars,
                    plotVars,
                    observable_values, runVars, nu_pre_level_x, label,
                    groupVars, report, report_open >>

\* lines 428-432: the MLHMC fit of the bias-corrected estimates
info_fit_mlhmc_bias ==
    /\ fn = "info_plot"
    /\ pc = "fit_mlhmc_bias"
    /\ \E r \in curve_fit(x_wo_bias_correction_multi_hmc,
                          y_w_bias_correction_multi_hmc,
                          yerr_wo_bias_correction_multi_hmc) :
         /\ fit_log' = Append(fit_log, [fit |-> "MLHMC", y |-> "w_bias",
                                        result |-> r])
         /\ pc' = IF r = "ok" THEN "finish" ELSE "crashed"
    /\ UNCHANGED << fn, dir, idx, handles, open_files, obsVars, baseVars,
                    plotVars,
                    observable_values, runVars, nu_pre_level_x, label,
                    groupVars, report, report_open >>

\* lines 434-460: the figure is saved and info_plot returns; its local
\* variables are gone
info_finish ==
    /\ fn = "info_plot"
    /\ pc = "finish"
    /\ pc' = "done"
    /\ handles' = NoHandles
    /\ UNCHANGED << fn, dir, idx, open_files, obsVars, baseVars,
                    plotVars,
                    observable_values, runVars, nu_pre_level_x, label,
                    groupVars, fitVars >>

----------------------------------------------------------------------------
(* crit_int_auto_correlation_plot: the directory scan *)

crit_open ==
    /\ fn = "crit_int_auto_correlation_plot"
    /\ OpenRunFile
    /\ UNCHANGED << obsVars, baseVars, plotVars, observable_values, runVars,
                    nu_pre_level_x, label, groupVars, fitVars >>

\* crit_read leaving the scan loop at a file without the observable
crit_read_BreakOnMissing ==
    /\ fn = "crit_int_auto_correlation_plot"
    /\ pc = "read"
    /\ LET file == dir[handles.f]
       IN  IF observable_name \in file.meas
           THEN /\ handles' = BindRun(handles, file)
                /\ AppendRun(file, PlainEstimate(file, observable_name))
                /\ AppendLevel1(file)
                /\ idx' = idx + 1
           ELSE /\ handles' = BindLevel0(handles)
                /\ idx' = Len(dir)
                /\ UNCHANGED << int_auto_correlation_time,
                                int_auto_correlation_time_bias,
                                int_auto_correlation_time_stat_error,
                                gamma, tick_time, nu_pre_level1,
                                nu_post_level1 >>
    /\ pc' = "scan"
    /\ UNCHANGED << fn, dir, open_files, obsVars, baseVars,
                    plotVars,
                    observable_values, system_size, nu_pre_level_x, label,
                    groupVars, fitVars >>

\* lines 643-663
crit_read ==
    /\ fn = "crit_int_auto_correlation_plot"
    /\ pc = "read"
    /\ LET file == dir[handles.f]
       IN  IF observable_name \in file.meas
           THEN /\ handles' = BindRun(handles, file)
                /\ AppendRun(file, PlainEstimate(file, observable_name))
                /\ AppendLevel1(file)
           ELSE /\ handles' = BindLevel0(handles)
                /\ UNCHANGED << int_auto_correlation_time,
                                int_auto_correlation_time_bias,
                                int_auto_correlation_time_stat_error,
                                gamma, tick_time, nu_pre_level1,
                                nu_post_level1 >>
    /\ idx' = idx + 1
    /\ pc' = "scan"
    /\ UNCHANGED << fn, dir, open_files, obsVars, baseVars,
                    plotVars,
                    observable_values, system_size, nu_pre_level_x, label,
                    groupVars, fitVars >>

----------------------------------------------------------------------------
(* crit_int_auto_correlation_plot_multiple_levels: the directory scan *)

multi_open ==
    /\ fn = "crit_int_auto_correlation_plot_multiple_levels"
    /\ OpenRunFile
    /\ UNCHANGED << obsVars, baseVars, plotVars, observable_values, runVars,
                    nu_pre_level_x, label, groupVars, fitVars >>

\* lines 536-545: temp_pre, the nu_pre of level1 .. level9 with -1 for a
\* level the file does not have
LevelSweeps(file) ==
    [ i \in 1..9 |-> IF i \in file.levels THEN file.nu_pre[i] ELSE -1 ]

\* lines 522-547
multi_read ==
    /\ fn = "crit_int_auto_correlation_plot_multiple_levels"
    /\ pc = "read"
    /\ LET file == dir[handles.f]
       IN  IF observable_name \in file.meas
           THEN /\ handles' = [BindLevel0(handles) EXCEPT
                                 !.observable_group = handles.f,
                                 !.level_x_group =
                                     IF file.levels \cap (1..9) # {}
                                     THEN handles.f ELSE @]
                /\ AppendRun(file, PlainEstimate(file, observable_name))
                /\ nu_pre_level_x' = Append(nu_pre_level_x,
                                            LevelSweeps(file))
           ELSE /\ handles' = BindLevel0(handles)
                /\ UNCHANGED << int_auto_correlation_time,
                                int_auto_correlation_time_bias,
                                int_auto_correlation_time_stat_error,
                                gamma, tick_time, nu_pre_level_x >>
    /\ idx' = idx + 1
    /\ pc' = "scan"
    /\ UNCHANGED << fn, dir, open_files, obsVars, baseVars,
                    plotVars,
                    observable_values, system_size, nu_pre_level1,
                    nu_post_level1, label, groupVars, fitVars >>

----------------------------------------------------------------------------
(* crit_int_auto_correlation_plot_multiple_levels: the figure *)

\* the frame of an action that only draws
DrawFrame ==
    UNCHANGED << fn, dir, idx, open_files, obsVars, baseVars, beta_lin,
                 m_exact, observable_values, runVars, nu_pre_level_x, label,
                 groupVars, fitVars >>

\* an artist drawn on the axes ax: the suffix of the file name of the
\* figure and the name of the axes
Artist(kind, ax, lbl, runs, x, y, yerr) ==
    [ artist |-> kind, ax |-> ax, label |-> lbl, runs |-> runs,
      x |-> x, y |-> y, yerr |-> yerr ]

\* the position in 1..Len(a) that the Python index k of a sequence or
\* array a refers to (a negative k counts from the end), or 0 when a[k]
\* raises IndexError
PyIndex(a, k) ==
    IF 0 <= k /\ k < Len(a) THEN k + 1
    ELSE IF k < 0 /\ -k <= Len(a) THEN Len(a) + k + 1
    ELSE 0

\* lines 564-568: base_index, the index of the first run whose level1 entry
\* is -1, and -1 when the loop finds none
BaseIndex(levels_x) ==
    LET hmc == { i \in 1..Len(levels_x) : levels_x[i][1] = -1 }
    IN  IF hmc = {} THEN -1
        ELSE (CHOOSE i \in hmc : \A j \in hmc : i <= j) - 1

\* lines 549-578: the HMC baseline is looked up and drawn
multi_baseline ==
    /\ fn = "crit_int_auto_correlation_plot_multiple_levels"
    /\ pc = "scan"
    /\ idx = Len(dir)
    /\ base_index' = BaseIndex(nu_pre_level_x)
    /\ LET p == PyIndex(int_auto_correlation_time, base_index')
       IN  IF p = 0
           THEN /\ raised' = "IndexError"
                /\ pc' = "crashed"
                /\ UNCHANGED drawn
           ELSE /\ drawn' = drawn \o
                      << Artist("hlines", << "", "ax1_" >>, << "HMC" >>,
                                << p >>, << >>,
                                << int_auto_correlation_time[p] >>, << >>),
                         Artist("hlines", << "", "ax2_" >>, << "HMC" >>,
                                << p >>, << >>, << tick_time[p] >>,
                                << >>) >>
                /\ pc' = "points"
                /\ UNCHANGED raised
    /\ UNCHANGED handles
    /\ DrawFrame

\* lines 585-589: the inner loop "for j in range(10): if nu_pre[j] == -1"
\* from index j on: the length it finds (-1 when the loop ends without a
\* break), or the IndexError of nu_pre[j] past the end of the list
RECURSIVE LevelScan(_, _)
LevelScan(nu_pre, j) ==
    IF j >= 10 THEN [raise |-> FALSE, length |-> -1]
    ELSE IF PyIndex(nu_pre, j) = 0 THEN [raise |-> TRUE, length |-> -1]
    ELSE IF nu_pre[PyIndex(nu_pre, j)] = -1
         THEN [raise |-> FALSE, length |-> j + 1]
    ELSE LevelScan(nu_pre, j + 1)

\* line 590: the runs that are plotted, in order
PlottedLevels(levels_x) ==
    SelectSeq([ i \in 1..Len(levels_x) |-> i ],
              LAMBDA i : LevelScan(levels_x[i], 0).length > 1)

\* lines 580-623: the points of the runs with more than one level are
\* collected and drawn, and the function returns
multi_points ==
    /\ fn = "crit_int_auto_correlation_plot_multiple_levels"
    /\ pc = "points"
    /\ IF \E i \in 1..Len(nu_pre_level_x) :
              LevelScan(nu_pre_level_x[i], 0).raise
       THEN /\ raised' = "IndexError"
            /\ pc' = "crashed"
            /\ UNCHANGED << drawn, handles >>
       ELSE LET runs == PlottedLevels(nu_pre_level_x)
                n == Len(runs)
                x_plot == [ k \in 1..n |->
                              LevelScan(nu_pre_level_x[runs[k]], 0).length ]
                y1_plot == [ k \in 1..n |->
                               int_auto_correlation_time[runs[k]] ]
                y1_error == [ k \in 1..n |->
                    Add(int_auto_correlation_time_stat_error[runs[k]],
                        int_auto_correlation_time_bias[runs[k]]) ]
                y2_plot == [ k \in 1..n |-> tick_time[runs[k]] ]
            IN  /\ drawn' = drawn \o
                       << Artist("errorbar", << "", "ax1_" >>, << "nu pre=1" >>,
                                 runs,
                                 x_plot, y1_plot, y1_error),
                          Artist("plot", << "", "ax2_" >>, << >>, runs, x_plot,
                                 y2_plot, << >>) >>
                /\ pc' = "done"
                /\ handles' = NoHandles
                /\ UNCHANGED raised
    /\ UNCHANGED base_index
    /\ DrawFrame

----------------------------------------------------------------------------
(* magnetization_exact *)

\* An inverse temperature, as a decimal with 15 fractional digits: the
\* value s * (hi * 10^-6 + lo * 10^-15) with 0 <= lo < 10^9, or NaN.
\* Every such decimal below 10 is a different double, and doubles compare
\* as these decimals do.
Beta(s, hi, lo) == [k |-> "fin", s |-> s, hi |-> hi, lo |-> lo]
BetaNaN == [k |-> "nan", s |-> 1, hi |-> 0, lo |-> 0]

\* a < b for two non-negative finite inverse temperatures
BetaMagLt(a, b) == a.hi < b.hi \/ (a.hi = b.hi /\ a.lo < b.lo)

\* the float comparison a < b: false as soon as one side is NaN
BetaLt(a, b) ==
    IF a.k = "nan" \/ b.k = "nan" THEN FALSE
    ELSE LET za == a.hi = 0 /\ a.lo = 0
             zb == b.hi = 0 /\ b.lo = 0
             sa == IF za THEN 0 ELSE a.s
             sb == IF zb THEN 0 ELSE b.s
         IN  IF sa # sb THEN sa < sb
             ELSE IF sa = 0 THEN FALSE
             ELSE IF sa = 1 THEN BetaMagLt(a, b)
             ELSE BetaMagLt(b, a)

\* the literal 0.440686793509772 of line 28
CriticalBeta == Beta(1, 440686, 793509772)

\* the two results of magnetization_exact: the integer 0, and the value
\* (1. - 1. / np.sinh(2 * beta) ** 4) ** (1 / 8) of line 31, which is kept
\* as the expression in beta
ZeroMagnetization == [k |-> "zero", beta |-> BetaNaN]
ClosedForm(beta) == [k |-> "closed_form", beta |-> beta]

\* magnetization_exact with the threshold included in the zero branch
magnetization_exact_ThresholdInclusive(beta) ==
    IF BetaLt(beta, CriticalBeta) \/ beta = CriticalBeta
    THEN ZeroMagnetization
    ELSE ClosedForm(beta)

\* lines 27-31
magnetization_exact(beta) ==
    IF BetaLt(beta, CriticalBeta) THEN ZeroMagnetization
    ELSE ClosedForm(beta)

----------------------------------------------------------------------------
(* crit_int_auto_correlation_plot: the three figures *)

\* the elements of a finite set of integers in increasing order
RECURSIVE SortedSeq(_)
SortedSeq(S) ==
    IF S = {} THEN << >>
    ELSE LET lo == CHOOSE i \in S : \A j \in S : i <= j
         IN  << lo >> \o SortedSeq(S \ {lo})

\* the positions of an array that a boolean mask "a == v" selects, in order
Where(a, v) == SortedSeq({ i \in 1..Len(a) : a[i] = v })

\* a[indices]: the entries of the array a at the selected positions
Take(a, indices) == [ k \in 1..Len(indices) |-> a[indices[k]] ]

\* lines 682-691 and 789-798: the HMC baseline, one horizontal line per run
\* whose nu_pre_level1 is -1, on the axes ax1_ and ax2_ of a figure
BaselineArtists(fig) ==
    LET base == Where(nu_pre_level1, -1)
    IN  << Artist("hlines", << fig, "ax1_" >>, << "HMC" >>, base, << >>,
                  Take(int_auto_correlation_time, base), << >>),
           Artist("hlines", << fig, "ax2_" >>, << "HMC" >>, base, << >>,
                  Take(tick_time, base), << >>) >>

\* lines 694-702 and 800-808: the error bars of the runs whose
\* nu_pre_level1 is i, with the x data xs, on ax1_ (ax2_ and ax3_ get the
\* same runs with the tick time and with the product)
GroupArtist(fig, i, xs) ==
    LET indices == Where(nu_pre_level1, i)
    IN  Artist("errorbar", << fig, "ax1_" >>, << "nu pre=", i >>, indices,
               Take(xs, indices),
               Take(int_auto_correlation_time, indices),
               [ k \in 1..Len(indices) |->
                   Add(int_auto_correlation_time_stat_error[indices[k]],
                       int_auto_correlation_time_bias[indices[k]]) ])

\* the values i of range(n) that the array a holds, in increasing order
Present(a, n) ==
    SortedSeq({ v \in { a[i] : i \in 1..Len(a) } : 0 <= v /\ v < n })

\* lines 665-724: the figure of the smoothing sweeps: the baseline, then
\* one group per i in range(513) that some run has as nu_pre_level1.  (The
\* colour of group number j is entry j of the ten TABLEAU_COLORS; the
\* directories of the model stay below ten groups.)
crit_plot_sweeps ==
    /\ fn = "crit_int_auto_correlation_plot"
    /\ pc = "scan"
    /\ idx = Len(dir)
    /\ LET keys == Present(nu_pre_level1, 513)
       IN  drawn' = drawn \o BaselineArtists("")
                      \o [ k \in 1..Len(keys) |->
                             GroupArtist("", keys[k], nu_post_level1) ]
    /\ pc' = "heatmap"
    /\ UNCHANGED << handles, raised, base_index >>
    /\ DrawFrame

\* lines 726-780: the heat maps over the nu_pre and nu_post values of
\* range(33): a cell is filled when exactly one run has its pair of
\* values.  imshow is handed an array without rows when no run has a
\* nu_pre in range(33); whether the figure is then saved or raises depends
\* on the matplotlib at hand.
crit_heatmap ==
    /\ fn = "crit_int_auto_correlation_plot"
    /\ pc = "heatmap"
    /\ LET j == Present(nu_pre_level1, 33)
           k == Present(nu_post_level1, 33)
           cells == { c \in (1..Len(j)) \X (1..Len(k)) :
                        Cardinality({ i \in 1..Len(nu_pre_level1) :
                            /\ nu_pre_level1[i] = j[c[1]]
                            /\ nu_post_level1[i] = k[c[2]] }) = 1 }
           runs == SortedSeq({ i \in 1..Len(nu_pre_level1) :
                       \E c \in cells : /\ nu_pre_level1[i] = j[c[1]]
                                        /\ nu_post_level1[i] = k[c[2]] })
       IN  \E outcome \in IF Len(j) = 0 \/ Len(k) = 0
                          THEN {"ok", "raise"} ELSE {"ok"} :
             IF outcome = "ok"
             THEN /\ drawn' = Append(drawn,
                        Artist("imshow", << "_heatmap", "ax1_" >>, << >>,
                               runs, j, k, << >>))
                  /\ pc' = "gamma"
                  /\ UNCHANGED raised
             ELSE /\ raised' = "ValueError"
                  /\ pc' = "crashed"
                  /\ UNCHANGED drawn
    /\ UNCHANGED << handles, base_index >>
    /\ DrawFrame

\* lines 782-830: the figure over gamma: the baseline and the runs whose
\* nu_pre_level1 is 1; then the function returns
crit_plot_gamma ==
    /\ fn = "crit_int_auto_correlation_plot"
    /\ pc = "gamma"
    /\ drawn' = drawn \o BaselineArtists("_gamma")
                  \o (IF Where(nu_pre_level1, 1) # << >>
                      THEN << GroupArtist("_gamma", 1, gamma) >>
                      ELSE << >>)
    /\ pc' = "done"
    /\ handles' = NoHandles
    /\ UNCHANGED << raised, base_index >>
    /\ DrawFrame

----------------------------------------------------------------------------
(* base_plot: the figures *)

\* -a and a * b for floats
Neg(a) == IF isnan(a) THEN NaN ELSE [a EXCEPT !.m = -a.m]
Mul(a, b) ==
    IF isnan(a) \/ isnan(b) THEN NaN
    ELSE IF isinf(a) \/ isinf(b)
         THEN (IF a.m = 0 \/ b.m = 0 THEN NaN
               ELSE IF Sgn(a.m) = Sgn(b.m) THEN PosInf ELSE NegInf)
    ELSE Norm(a.m * b.m, a.e + b.e)

\* np.linspace(0.25, 3, 1000), of which the model keeps the two ends
BetaLin == << Beta(1, 250000, 0), Beta(1, 3000000, 0) >>

\* ax_.errorbar(x, y, yerr) in make_observable_plot raises ValueError when
\* the three sequences do not have one length
ErrorbarRaises(x, y, yerr) == Len(x) # Len(y) \/ Len(yerr) # Len(y)

\* the error bars make_observable_plot draws for the observable name
Measurements(name, x, y, yerr) ==
    Artist("errorbar", << name, "ax_" >>, << "Measurements" >>,
           [ i \in 1..Len(x) |-> i ], x, y, yerr)

\* the frame of a figure step of base_plot
BaseFrame ==
    UNCHANGED << fn, dir, idx, open_files, obsVars, betas, inverse_betas,
                 energies_errors, magnetizations, magnetizations_errors,
                 energies_squared, energies_squared_errors,
                 magnetizations_squared, magnetizations_squared_errors,
                 base_index, observable_values, runVars, nu_pre_level_x,
                 label, groupVars, fitVars >>

\* lines 163-173: beta_lin is set up; when a magnetization was measured,
\* m_exact is computed and the magnetization figure drawn
base_plot_magnetization ==
    /\ fn = "base_plot"
    /\ pc = "scan"
    /\ idx = Len(dir)
    /\ beta_lin' = BetaLin
    /\ IF Len(magnetizations) > 0
       THEN /\ m_exact' =
                 [ bound |-> TRUE,
                   value |-> [ i \in 1..Len(BetaLin) |->
                                 magnetization_exact(BetaLin[i]) ] ]
            /\ IF ErrorbarRaises(inverse_betas, magnetizations,
                                 magnetizations_errors)
               THEN /\ raised' = "ValueError"
                    /\ pc' = "crashed"
                    /\ UNCHANGED drawn
               ELSE /\ drawn' = Append(drawn,
                          Measurements(magnetization_name, inverse_betas,
                                       magnetizations,
                                       magnetizations_errors))
                    /\ pc' = "plot_magnetization_squared"
                    /\ UNCHANGED raised
       ELSE /\ pc' = "plot_magnetization_squared"
            /\ UNCHANGED << m_exact, raised, drawn >>
    /\ UNCHANGED << handles, energies >>
    /\ BaseFrame

\* lines 175-184: when a squared magnetization was measured, m_exact is
\* squared (NameError when line 166 never bound it) and the figure drawn
base_plot_magnetization_squared ==
    /\ fn = "base_plot"
    /\ pc = "plot_magnetization_squared"
    /\ IF Len(magnetizations_squared) > 0
       THEN IF ~m_exact.bound
            THEN /\ raised' = "NameError"
                 /\ pc' = "crashed"
                 /\ UNCHANGED drawn
            ELSE IF ErrorbarRaises(inverse_betas, magnetizations_squared,
                                   magnetizations_squared_errors)
            THEN /\ raised' = "ValueError"
                 /\ pc' = "crashed"
                 /\ UNCHANGED drawn
            ELSE /\ drawn' = Append(drawn,
                       Measurements(magnetization_squared_name,
                                    inverse_betas, magnetizations_squared,
                                    magnetizations_squared_errors))
                 /\ pc' = "plot_energy"
                 /\ UNCHANGED raised
       ELSE /\ pc' = "plot_energy"
            /\ UNCHANGED << raised, drawn >>
    /\ UNCHANGED << handles, energies, beta_lin, m_exact >>
    /\ BaseFrame

\* lines 186-195: when an energy was measured, its figure is drawn
base_plot_energy ==
    /\ fn = "base_plot"
    /\ pc = "plot_energy"
    /\ IF Len(energies) > 0
       THEN IF ErrorbarRaises(inverse_betas, energies, energies_errors)
            THEN /\ raised' = "ValueError"
                 /\ pc' = "crashed"
                 /\ UNCHANGED drawn
            ELSE /\ drawn' = Append(drawn,
                       Measurements(energy_name, inverse_betas, energies,
                                    energies_errors))
                 /\ pc' = "plot_energy_squared"
                 /\ UNCHANGED raised
       ELSE /\ pc' = "plot_energy_squared"
            /\ UNCHANGED << raised, drawn >>
    /\ UNCHANGED << handles, energies, beta_lin, m_exact >>
    /\ BaseFrame

\* the length of the result of an elementwise operation on two arrays of
\* the lengths n and k under numpy's broadcasting (an array of length 1 is
\* stretched), or -1 when the operation raises ValueError
BroadcastLen(n, k) ==
    IF n = k THEN n
    ELSE IF n = 1 THEN k
    ELSE IF k = 1 THEN n
    ELSE -1

\* line 202: energies_squared - energies ** 2
HeatCapacity(e2, e) ==
    [ i \in 1..BroadcastLen(Len(e2), Len(e)) |->
        LET a == IF Len(e2) = 1 THEN e2[1] ELSE e2[i]
            b == IF Len(e) = 1 THEN e[1] ELSE e[i]
        IN  Add(a, Neg(Mul(b, b))) ]

\* lines 197-208: when a squared energy was measured, the fluctuation
\* energies_squared - energies ** 2 is drawn; then base_plot returns
base_plot_energy_squared ==
    /\ fn = "base_plot"
    /\ pc = "plot_energy_squared"
    /\ IF Len(energies_squared) > 0
       THEN IF BroadcastLen(Len(energies_squared), Len(energies)) = -1
            THEN /\ raised' = "ValueError"
                 /\ pc' = "crashed"
                 /\ UNCHANGED << drawn, handles >>
            ELSE LET y == HeatCapacity(energies_squared, energies)
                 IN  IF ErrorbarRaises(inverse_betas, y,
                                       energies_squared_errors)
                     THEN /\ raised' = "ValueError"
                          /\ pc' = "crashed"
                          /\ UNCHANGED << drawn, handles >>
                     ELSE /\ drawn' = Append(drawn,
                                Measurements(energy_squared_name,
                                             inverse_betas, y,
                                             energies_squared_errors))
                          /\ pc' = "done"
                          /\ handles' = NoHandles
                          /\ UNCHANGED raised
       ELSE /\ pc' = "done"
            /\ handles' = NoHandles
            /\ UNCHANGED << raised, drawn >>
    /\ UNCHANGED << energies, beta_lin, m_exact >>
    /\ BaseFrame

----------------------------------------------------------------------------
(* check_thermalisation: the figures *)

\* lines 483-499: one scatter plot per run file, of the data set kept for
\* it or of the empty list; then the function returns and its locals,
\* observable_values among them, are gone
therm_plot ==
    /\ fn = "check_thermalisation"
    /\ pc = "scan"
    /\ idx = Len(dir)
    /\ drawn' = drawn \o
           [ i \in 1..Len(observable_values) |->
               Artist("scatter", << "", "ax1_" >>, << "file_list", i >>,
                      IF observable_values[i] = 0 THEN << >>
                      ELSE << observable_values[i] >>,
                      << >>, << >>, << >>) ]
    /\ observable_values' = << >>
    /\ handles' = NoHandles
    /\ pc' = "done"
    /\ UNCHANGED << fn, dir, idx, open_files, obsVars, baseVars, raised,
                    beta_lin, m_exact, base_index, runVars, nu_pre_level_x,
                    label, groupVars, fitVars >>

----------------------------------------------------------------------------
(* Specifications *)

\* the runs handed to info_plot: single-level runs (with error bar 1 or
\* with a zero error bar) and multilevel runs (V-cycle, W-cycle), each at
\* a site count below 5 * 5, between the cutoffs, and at 33 * 33
InfoProfiles ==
    { << FALSE, 1, F(1, 0) >>, << FALSE, 1, F(0, 0) >>,
      << TRUE, 1, F(1, 0) >>, << TRUE, 2, F(1, 0) >> }
InfoSizes == {16, 32 * 32, 33 * 33}

\* info_plot on a directory of at most MaxRuns run files
InitInfo ==
    /\ fn = "info_plot"
    /\ pc = "scan"
    /\ \E c \in KindSeqs(InfoKinds(InfoProfiles, InfoSizes), MaxRuns) :
           dir = [ i \in DOMAIN c |-> InfoFile(c[i], i) ]
    /\ beta_lin = << >>
    /\ Idle

NextInfo ==
    \/ info_open
    \/ info_read
    \/ info_prepare
    \/ info_group
    \/ info_fit_hmc
    \/ info_fit_mlhmc
    \/ info_fit_hmc_bias
    \/ info_fit_mlhmc_bias
    \/ info_finish
    \/ GarbageCollect

SpecInfo == InitInfo /\ [][NextInfo]_vars

\* one of the five plot functions on a directory of at most MaxFiles run
\* files
Init ==
    /\ fn \in Functions
    /\ pc = "scan"
    /\ CASE fn = "base_plot" ->
                \E c \in KindSeqs(BaseKinds, MaxFiles) :
                    dir = [ i \in DOMAIN c |-> BaseFile(c[i], i) ]
         [] fn = "check_thermalisation" ->
                \E c \in KindSeqs(ThermKinds, MaxFiles) :
                    dir = [ i \in DOMAIN c |-> ThermFile(c[i], i) ]
         [] fn = "info_plot" ->
                \E c \in KindSeqs(InfoKinds({ << FALSE, 1, F(1, 0) >>,
                                              << TRUE, 1, F(1, 0) >>,
                                              << TRUE, 2, F(1, 0) >> },
                                            {16, 32 * 32}), MaxFiles) :
                    dir = [ i \in DOMAIN c |-> InfoFile(c[i], i) ]
         [] fn = "crit_int_auto_correlation_plot" ->
                \E c \in KindSeqs(CritKinds, MaxFiles) :
                    dir = [ i \in DOMAIN c |-> CritFile(c[i], i) ]
         [] OTHER ->
                \E c \in KindSeqs(MultiKinds, MaxFiles) :
                    dir = [ i \in DOMAIN c |-> MultiFile(c[i], i) ]
    /\ beta_lin = << >>
    /\ Idle

Next ==
    \/ base_open
    \/ base_read
    \/ base_plot_magnetization
    \/ base_plot_magnetization_squared
    \/ base_plot_energy
    \/ base_plot_energy_squared
    \/ therm_open
    \/ therm_read
    \/ therm_plot
    \/ crit_open
    \/ crit_read
    \/ crit_plot_sweeps
    \/ crit_heatmap
    \/ crit_plot_gamma
    \/ multi_open
    \/ multi_read
    \/ multi_baseline
    \/ multi_points
    \/ NextInfo

Spec == Init /\ [][Next]_vars

\* the script is one sequential thread that runs until its function
\* returns or raises: a step that can be taken is taken
FairSpec == Spec /\ WF_vars(Next)

----------------------------------------------------------------------------
(* Checkpointed estimates *)

\* the first samples i of the checkpoint suffixes _i_100000 a record of the
\* model may carry; the suffix _i_100000 declares the sample range
\* i .. 100000, so the smallest i declares the largest range
CkptSuffixes == {1000, 10000, 50000}

\* the attribute names "bootstrap_mean" + suffix and
\* "bootstrap_variance" + suffix
BootstrapMeanKey(i) ==
    CASE i = 1000 -> "bootstrap_mean_1000_100000"
      [] i = 10000 -> MeanCkptKey
      [] i = 50000 -> "bootstrap_mean_50000_100000"
BootstrapVarianceKey(i) ==
    CASE i = 1000 -> "bootstrap_variance_1000_100000"
      [] i = 10000 -> VarianceCkptKey
      [] i = 50000 -> "bootstrap_variance_50000_100000"

\* the bootstrap statistics stored under the suffix _i_100000: the mean i
\* and the variance i * i; the unsuffixed ones are the mean 7 and the
\* variance 49
CkptMean(i) == FromInt(i)
CkptVariance(i) == Norm((i \div 1000) * (i \div 1000), 6)
PlainMean == Shadowed
PlainVariance == F(49, 0)

\* the attributes of an observable group that carries the unsuffixed
\* bootstrap statistics and the checkpointed ones of the suffixes S
CkptAttrs(S) ==
    [ key \in {MeanKey, VarianceKey}
              \cup { BootstrapMeanKey(i) : i \in S }
              \cup { BootstrapVarianceKey(i) : i \in S } |->
        IF key = MeanKey THEN PlainMean
        ELSE IF key = VarianceKey THEN PlainVariance
        ELSE IF \E i \in S : key = BootstrapMeanKey(i)
             THEN CkptMean(CHOOSE i \in S : key = BootstrapMeanKey(i))
        ELSE CkptVariance(CHOOSE i \in S : key = BootstrapVarianceKey(i)) ]

\* the autocorrelation estimates stored under the suffixes S: the time i
\* under the suffix _i_100000
CkptEstimates(S) ==
    [ i \in S |-> [ tau |-> FromInt(i), bias |-> F(0, 0), err |-> F(1, 0) ] ]

\* a single-level run file of 16 sites whose observable group carries the
\* checkpoints S next to the unsuffixed attributes
CkptFile(S, i) ==
    [ RunFile(i, {magnetization_name}, TRUE, {}, 1, 16, F(1, 0), 1)
        EXCEPT !.attrs = [ n \in {magnetization_name} |->
                             CkptAttrs(S) @@ @[n] ],
               !.ckpt = [ n \in {magnetization_name} |-> CkptEstimates(S) ] ]

\* one call of append_observable on a checkpointed observable group
CallAppendCheckpointed ==
    /\ fn = "append_observable"
    /\ Len(observable_list) < MaxCalls
    /\ \E S \in SUBSET CkptSuffixes :
         LET attrs == CkptAttrs(S)
             out == append_observable(attrs, observable_list,
                                      observable_error_list)
         IN  /\ group_attrs' = attrs
             /\ observable_list' = out[1]
             /\ observable_error_list' = out[2]
    /\ UNCHANGED << scanVars, baseVars, plotVars, observable_values, runVars,
                    nu_pre_level_x, label, groupVars, fitVars >>

\* append_observable on checkpointed observable groups, or info_plot on a
\* directory of at most MaxFiles checkpointed run files
InitCkpt ==
    /\ fn \in {"append_observable", "info_plot"}
    /\ IF fn = "append_observable"
       THEN pc = "call" /\ dir = << >>
       ELSE /\ pc = "scan"
            /\ \E c \in KindSeqs(SUBSET CkptSuffixes, MaxFiles) :
                   dir = [ i \in DOMAIN c |-> CkptFile(c[i], i) ]
    /\ beta_lin = << >>
    /\ Idle

NextCkpt ==
    \/ CallAppendCheckpointed
    \/ NextInfo

SpecCkpt == InitCkpt /\ [][NextCkpt]_vars


----------------------------------------------------------------------------
(* magnetization_exact called on arbitrary inverse temperatures *)

\* largest number of magnetization_exact calls in one behaviour of
\* SpecExact
MaxBetas == 2

\* the inverse temperatures below the literal threshold: 0.25, 0.44, the
\* threshold minus 10^-15, 0 and -0.5
BetasBelow ==
    { Beta(1, 250000, 0), Beta(1, 440000, 0), Beta(1, 440686, 793509771),
      Beta(1, 0, 0), Beta(-1, 500000, 0) }

\* the inverse temperatures at or above it: the threshold itself, the
\* threshold plus 10^-15, 0.45 and 3
BetasAtOrAbove ==
    { CriticalBeta, Beta(1, 440686, 793509773), Beta(1, 450000, 0),
      Beta(1, 3000000, 0) }

Betas == BetasBelow \cup BetasAtOrAbove \cup {BetaNaN}

\* magnetization_exact is called on each element of beta_lin in turn, as
\* the list comprehension of line 166 does
InitExact ==
    /\ fn = "magnetization_exact"
    /\ pc = "call"
    /\ dir = << >>
    /\ beta_lin \in KindSeqs(Betas, MaxBetas)
    /\ Idle

\* one call magnetization_exact(temp) for the next temp of beta_lin
CallMagnetizationExact ==
    /\ fn = "magnetization_exact"
    /\ Len(m_exact.value) < Len(beta_lin)
    /\ m_exact' =
         [ bound |-> TRUE,
           value |-> Append(m_exact.value,
               magnetization_exact(beta_lin[Len(m_exact.value) + 1])) ]
    /\ UNCHANGED << scanVars, obsVars, baseVars, raised, beta_lin,
                    base_index, drawn, observable_values, runVars,
                    nu_pre_level_x, label, groupVars, fitVars >>

NextExact == CallMagnetizationExact

SpecExact == InitExact /\ [][NextExact]_vars


\* ======================= claims =======================

----------------------------------------------------------------------------
(* Claims about append_observable (SpecObs) *)

\* the mean and the variance the latest call read, and what it appended
LastMean == SelectMean(group_attrs)
LastVariance == SelectVariance(group_attrs)
LastValue == observable_list[Len(observable_list)]
LastError == observable_error_list[Len(observable_error_list)]
Called == Len(observable_list) > 0

\* |x| > 1e200
MagnitudeAboveThreshold(x) ==
    Gt(x, Threshold) \/ Gt([Threshold EXCEPT !.m = -Threshold.m], x)

\* C1: the value append_observable appends for a bootstrap mean m is -42
\* when m is infinite or |m| > 1e200 (large negative means included), and
\* m itself otherwise.
C1_MeanSanitizedByMagnitude ==
    Called =>
        LastValue = IF isinf(LastMean) \/ MagnitudeAboveThreshold(LastMean)
                    THEN BadValue ELSE LastMean

\* C2: the error append_observable appends for a bootstrap variance v is 42
\* when v is infinite, NaN or > 1e200, and otherwise the square root of v:
\* a non-negative number whose square is v (NaN for a negative v); a
\* variance of 0.04 gives the error 0.2, next to the value 0.5 for the
\* mean 0.5.
C2_ErrorSanitized ==
    Called =>
        /\ Len(observable_error_list) = Len(observable_list)
        /\ IF isinf(LastVariance) \/ isnan(LastVariance)
              \/ Gt(LastVariance, Threshold)
           THEN LastError = BadError
           ELSE IF LastVariance.m < 0 THEN isnan(LastError)
           ELSE /\ isfinite(LastError)
                /\ LastError.m >= 0
                /\ Norm(LastError.m * LastError.m, 2 * LastError.e)
                     = LastVariance
        /\ LastVariance = F(4, -2) => LastError = F(2, -1)
        /\ (LastMean = F(5, -1) /\ LastVariance = F(4, -2))
              => (LastValue = F(5, -1) /\ LastError = F(2, -1))

\* a NaN variance was replaced by 42, and then the mean 0.5 with the
\* variance 0.04 gave the value 0.5 and the error 0.2
C2_Witness ==
    /\ Len(observable_error_list) = 2
    /\ observable_error_list[1] = BadError
    /\ LastMean = F(5, -1) /\ LastVariance = F(4, -2)
    /\ LastValue = F(5, -1) /\ LastError = F(2, -1)

\* C3: after any sequence of append_observable calls every entry of the
\* observable list and of the error list is a finite number.
C3_ListsFinite ==
    /\ \A i \in 1..Len(observable_list) : isfinite(observable_list[i])
    /\ \A i \in 1..Len(observable_error_list) :
           isfinite(observable_error_list[i])

----------------------------------------------------------------------------
(* Claims about info_plot (SpecInfo) *)

InSeq(i, s) == \E j \in 1..Len(s) : s[j] = i

\* the run files read so far that have the observable called name, in
\* the order of the scan: entry i of a per-run list belongs to the i-th
\* of them
Measured(name) ==
    SelectSeq(SubSeq(dir, 1, idx), LAMBDA file : name \in file.meas)
RunOf(i) == Measured(observable_name)[i]
IsMultilevel(file) == 1 \in file.levels

\* C4: every point of the single-level (HMC) fit vectors comes from a run
\* without a level1 group, and every point of the multilevel (MLHMC) fit
\* vectors from a run with a level1 group.
C4_FitGroupsHoldOneClass ==
    /\ \A j \in 1..Len(runs_hmc) : ~IsMultilevel(RunOf(runs_hmc[j]))
    /\ \A j \in 1..Len(runs_multi_hmc) :
           IsMultilevel(RunOf(runs_multi_hmc[j]))

\* C5 as stated: of the runs the grouping loop has handled, a single-level
\* run is in the single-level fit iff it has fewer than 33 * 33 sites, and
\* a multilevel run is in the multilevel fit iff it has fewer than 5 * 5
\* sites.
C5_CutoffsAsStated ==
    \A i \in 1..gi :
        /\ ~IsMultilevel(RunOf(i)) =>
               (InSeq(i, runs_hmc) <=> RunOf(i).h < 33 * 33)
        /\ IsMultilevel(RunOf(i)) =>
               (InSeq(i, runs_multi_hmc) <=> RunOf(i).h < 5 * 5)

\* C5, amended: of the runs the grouping loop has handled, a single-level
\* run is in the single-level fit iff it has fewer than 33 * 33 sites, and
\* a multilevel run is in the multilevel fit iff it has fewer than 33 * 33
\* sites.
C5_CutoffsBothBelow33Squared ==
    \A i \in 1..gi :
        /\ ~IsMultilevel(RunOf(i)) =>
               (InSeq(i, runs_hmc) <=> RunOf(i).h < 33 * 33)
        /\ IsMultilevel(RunOf(i)) =>
               (InSeq(i, runs_multi_hmc) <=> RunOf(i).h < 33 * 33)

\* the grouping loop is over three runs: a multilevel run of 32 * 32 sites
\* that is in the multilevel fit, and a single-level and a multilevel run
\* of 33 * 33 sites that are in no fit
C5_Witness ==
    /\ pc = "group" /\ gi = 3
    /\ IsMultilevel(RunOf(1)) /\ RunOf(1).h = 32 * 32
    /\ InSeq(1, runs_multi_hmc)
    /\ ~IsMultilevel(RunOf(2)) /\ RunOf(2).h = 33 * 33
    /\ IsMultilevel(RunOf(3)) /\ RunOf(3).h = 33 * 33
    /\ ~InSeq(2, runs_hmc) /\ ~InSeq(3, runs_multi_hmc)

\* C6: the run read last is labelled HMC when it has no level1 group,
\* MLHMC V-cycle when it has one and gamma = 1, MLHMC W-cycle (the literal
\* of the source has two blanks) when it has one and gamma > 1; and gamma
\* does not decide the fit group: two runs of the same class and site
\* count are in the same fit groups whatever their gamma.
C6_LabelAndGroupIndependentOfGamma ==
    /\ (pc \notin {"read"} /\ idx > 0
          /\ observable_name \in dir[idx].meas) =>
          LET file == dir[idx]
          IN  /\ ~IsMultilevel(file) => label = "HMC"
              /\ (IsMultilevel(file) /\ file.gamma = 1)
                    => label = "MLHMC V-cycle"
              /\ (IsMultilevel(file) /\ file.gamma > 1)
                    => label = "MLHMC  W-cycle"
    /\ \A i, j \in 1..gi :
          (/\ IsMultilevel(RunOf(i)) = IsMultilevel(RunOf(j))
           /\ RunOf(i).h = RunOf(j).h)
          => /\ InSeq(i, runs_hmc) <=> InSeq(j, runs_hmc)
             /\ InSeq(i, runs_multi_hmc) <=> InSeq(j, runs_multi_hmc)

\* a V-cycle and a W-cycle run of the same size were read, the W-cycle
\* run last, and the grouping loop put both into the multilevel fit
C6_Witness ==
    /\ pc = "group" /\ gi = 2 /\ idx = 2
    /\ IsMultilevel(dir[1]) /\ dir[1].gamma = 1
    /\ IsMultilevel(dir[2]) /\ dir[2].gamma = 2
    /\ dir[1].h = dir[2].h
    /\ label = "MLHMC  W-cycle"
    /\ runs_multi_hmc = << 1, 2 >>

\* the fit vectors behind the report lines of a class
PointsOf(class) ==
    IF class = "HMC" THEN yerr_wo_bias_correction_hmc
    ELSE yerr_wo_bias_correction_multi_hmc

\* C7: a fit over a group with fewer than 3 points, or with an error bar
\* equal to 0, writes no coefficients and no chi-square to the report:
\* every line of the report belongs to a group of at least 3 points
\* without a zero error bar.
C7_NoReportLineForDegenerateFit ==
    \A n \in 1..Len(report) :
        LET yerr == PointsOf(report[n].class)
        IN  /\ Len(yerr) >= 3
            /\ \A j \in 1..Len(yerr) : yerr[j] # F(0, 0)

\* C8: a failed curve fit aborts only that fit: once info_plot has ended
\* after a failed HMC fit, the MLHMC fit has been attempted and the report
\* file has been written and closed.
C8_FailedFitAbortsOnlyThatFit ==
    (/\ fn = "info_plot"
     /\ pc \in {"done", "crashed"}
     /\ \E n \in 1..Len(fit_log) :
            fit_log[n].fit = "HMC" /\ fit_log[n].result = "raise")
    => /\ \E n \in 1..Len(fit_log) : fit_log[n].fit = "MLHMC"
       /\ ~report_open
       /\ \E n \in 1..Len(report) : report[n].class = "MLHMC"

----------------------------------------------------------------------------
(* Claims about the directory scans (Spec, FairSpec) *)

\* the values a scan has appended for the measured runs, were none skipped
\* wrongly: the autocorrelation times of the measured files, in order
TausOf(files) ==
    [ i \in 1..Len(files) |-> files[i].attrs[observable_name][TauKey] ]

\* after the files read so far, the lists hold one entry per file that
\* has the observable and none for a file that lacks it
SkippedRunsLeaveNoEntry ==
    /\ fn = "base_plot" =>
         /\ Len(energies) = Len(Measured(energy_name))
         /\ Len(magnetizations) = Len(Measured(magnetization_name))
         /\ Len(energies_squared) = Len(Measured(energy_squared_name))
         /\ Len(magnetizations_squared)
              = Len(Measured(magnetization_squared_name))
    /\ fn \in { "info_plot", "crit_int_auto_correlation_plot",
                "crit_int_auto_correlation_plot_multiple_levels" } =>
         int_auto_correlation_time = TausOf(Measured(observable_name))
    /\ fn \in { "info_plot", "crit_int_auto_correlation_plot" } =>
         Len(nu_pre_level1) = Len(Measured(observable_name))
    /\ fn = "crit_int_auto_correlation_plot_multiple_levels" =>
         Len(nu_pre_level_x) = Len(Measured(observable_name))

\* the scan loop is left only after the last file of the directory
ScanEndsAfterLastFile == pc \notin {"scan", "read"} => idx = Len(dir)

\* C9: in base_plot, info_plot, crit_int_auto_correlation_plot and
\* crit_int_auto_correlation_plot_multiple_levels a run file that lacks
\* the observable gets no entry in the per-run lists, and the scan goes on:
\* every file of the directory is eventually read.
C9_MissingObservableSkipsOnlyThatRun ==
    (fn # "check_thermalisation") =>
        /\ [](SkippedRunsLeaveNoEntry /\ ScanEndsAfterLastFile)
        /\ <>(idx = Len(dir) /\ pc # "read")

\* a file without the observable was skipped and the file after it, which
\* has the observable, was read and appended
C9_Witness ==
    /\ fn = "crit_int_auto_correlation_plot"
    /\ idx = 2 /\ pc = "scan"
    /\ observable_name \notin dir[1].meas
    /\ observable_name \in dir[2].meas
    /\ int_auto_correlation_time = << dir[2].attrs[observable_name][TauKey] >>

\* C10: run files are handled one at a time: never more than one run file
\* handle is open, and none is open once the scan has ended.
C10_OneRunFileOpenAtATime ==
    /\ Cardinality(open_files) <= 1
    /\ (idx = Len(dir) /\ pc # "read") => open_files = {}


----------------------------------------------------------------------------
(* Claims about checkpointed estimates (SpecCkpt) *)

\* the checkpoint suffixes an observable group with the attributes attrs
\* carries bootstrap statistics for
SuffixesOf(attrs) ==
    { i \in CkptSuffixes : BootstrapMeanKey(i) \in DOMAIN attrs }

\* the suffix that declares the largest sample range
LargestRange(S) == CHOOSE i \in S : \A j \in S : i <= j

\* C11: whatever set of checkpoint suffixes an observable record carries,
\* the estimate used is the one of the suffix with the largest sample
\* range, and the unsuffixed estimate is used only when the record carries
\* no checkpoint: this holds for the bootstrap mean and variance
\* append_observable reads and for the autocorrelation time info_plot
\* reads.
C11_LargestCheckpointRangeUsed ==
    /\ (fn = "append_observable" /\ Called) =>
          LET S == SuffixesOf(group_attrs)
          IN  IF S = {}
              THEN LastValue = PlainMean /\ LastError = Sqrt(PlainVariance)
              ELSE /\ LastValue = CkptMean(LargestRange(S))
                   /\ LastError = Sqrt(CkptVariance(LargestRange(S)))
    /\ fn = "info_plot" =>
          \A i \in 1..Len(int_auto_correlation_time) :
              LET S == DOMAIN RunOf(i).ckpt[observable_name]
              IN  int_auto_correlation_time[i] =
                      IF S = {} THEN RunOf(i).attrs[observable_name][TauKey]
                      ELSE RunOf(i).ckpt[observable_name][LargestRange(S)].tau


----------------------------------------------------------------------------
(* Claims about crit_int_auto_correlation_plot_multiple_levels (Spec) *)

\* the HMC baselines drawn so far
Baselines ==
    SelectSeq(drawn, LAMBDA a : a.artist = "hlines" /\ a.label = << "HMC" >>)

\* C12: in crit_int_auto_correlation_plot_multiple_levels the HMC baseline
\* is never taken from a multilevel run: every baseline drawn shows the
\* autocorrelation time or tick time of a run without a level1 group, and
\* when no such run was read the function ends in a failure and draws no
\* baseline.
C12_BaselineOnlyFromHmcRun ==
    fn = "crit_int_auto_correlation_plot_multiple_levels" =>
        /\ \A n \in 1..Len(Baselines) :
               \A k \in 1..Len(Baselines[n].runs) :
                   ~IsMultilevel(RunOf(Baselines[n].runs[k]))
        /\ (/\ pc \notin {"scan", "read"}
            /\ \A i \in 1..Len(nu_pre_level_x) : IsMultilevel(RunOf(i)))
           => (pc = "crashed" /\ raised # "" /\ Baselines = << >>)


----------------------------------------------------------------------------
(* Claims about magnetization_exact (SpecExact) *)

\* C13: magnetization_exact(beta) returns exactly 0 for every beta
\* strictly below 0.440686793509772, and the value of the closed form
\* (1 - sinh(2 beta)^-4)^(1/8) for every beta at or above that threshold,
\* the threshold itself included.
C13_ZeroStrictlyBelowThreshold ==
    \A i \in 1..Len(m_exact.value) :
        /\ beta_lin[i] \in BetasBelow =>
               m_exact.value[i] = ZeroMagnetization
        /\ beta_lin[i] \in BetasAtOrAbove =>
               m_exact.value[i] = ClosedForm(beta_lin[i])

\* the function was called just below the threshold and then on the
\* threshold itself: the first call returned 0, the second the closed form
C13_Witness ==
    /\ fn = "magnetization_exact"
    /\ Len(m_exact.value) = 2
    /\ beta_lin[1] = Beta(1, 440686, 793509771)
    /\ beta_lin[2] = CriticalBeta
    /\ m_exact.value[1] = ZeroMagnetization
    /\ m_exact.value[2] = ClosedForm(CriticalBeta)


----------------------------------------------------------------------------
(* Claims about the fit vectors of info_plot (SpecInfo) *)

\* the vectors x, y, yerr and the bias-corrected yw hold, point by point
\* and in scan order, the runs listed in runs
TriplesOfRuns(runs, x, y, yerr, yw) ==
    /\ Len(x) = Len(runs) /\ Len(y) = Len(runs)
    /\ Len(yerr) = Len(runs) /\ Len(yw) = Len(runs)
    /\ \A j \in 1..Len(runs) : \A k \in 1..Len(runs) :
           j < k => runs[j] < runs[k]
    /\ \A j \in 1..Len(runs) :
           LET run == RunOf(runs[j])
               est == run.attrs[observable_name]
           IN  /\ isfinite(x[j]) /\ x[j].m >= 0
               /\ Norm(x[j].m * x[j].m, 2 * x[j].e) = FromInt(run.h)
               /\ y[j] = est[TauKey]
               /\ yerr[j] = est[TauErrKey]
               /\ yw[j] = Add(est[TauKey], est[TauBiasKey])

\* C14: every point of an info_plot fit group belongs to one run: x is the
\* square root of the site count of the run, y its autocorrelation time
\* and yerr its statistical error; the bias-corrected vector holds the
\* same runs in the same order, with y = time + bias of the same run.
C14_FitTriplesBelongToOneRun ==
    /\ TriplesOfRuns(runs_hmc, x_wo_bias_correction_hmc,
                     y_wo_bias_correction_hmc, yerr_wo_bias_correction_hmc,
                     y_w_bias_correction_hmc)
    /\ TriplesOfRuns(runs_multi_hmc, x_wo_bias_correction_multi_hmc,
                     y_wo_bias_correction_multi_hmc,
                     yerr_wo_bias_correction_multi_hmc,
                     y_w_bias_correction_multi_hmc)

\* the first file lacks the observable; the second, a single-level run of
\* 32 * 32 sites with time 20 and bias 2, is point 1 of the HMC fit; the
\* third, a multilevel run of 16 sites with time 30 and bias 3, is point 1
\* of the MLHMC fit
C14_Witness ==
    /\ pc = "group" /\ gi = 2 /\ Len(dir) = 3
    /\ observable_name \notin dir[1].meas
    /\ x_wo_bias_correction_hmc = << FromInt(32) >>
    /\ y_wo_bias_correction_hmc = << F(2, 1) >>
    /\ y_w_bias_correction_hmc = << F(22, 0) >>
    /\ yerr_wo_bias_correction_hmc = << F(1, 0) >>
    /\ x_wo_bias_correction_multi_hmc = << FromInt(4) >>
    /\ y_wo_bias_correction_multi_hmc = << F(3, 1) >>
    /\ y_w_bias_correction_multi_hmc = << F(33, 0) >>


----------------------------------------------------------------------------
(* Claims about crit_int_auto_correlation_plot (Spec) *)

\* the groups of the smoothing-sweep figure, and its baseline
SweepGroups ==
    SelectSeq(drawn, LAMBDA a : /\ a.artist = "errorbar"
                                /\ a.ax = << "", "ax1_" >>)
SweepBaseline ==
    SelectSeq(drawn, LAMBDA a : /\ a.artist = "hlines"
                                /\ a.ax = << "", "ax1_" >>)

\* C15: once crit_int_auto_correlation_plot has drawn its smoothing-sweep
\* figure, every multilevel run, whatever the nu_pre of its level1, is in
\* exactly one group, the group of its nu_pre; a single-level run is in no
\* group and is part of the HMC baseline.
C15_EveryMultilevelRunInItsSweepGroup ==
    (fn = "crit_int_auto_correlation_plot" /\ pc \notin {"scan", "read"}) =>
        \A i \in 1..Len(nu_pre_level1) :
            LET holding == { n \in 1..Len(SweepGroups) :
                               InSeq(i, SweepGroups[n].runs) }
            IN  IF IsMultilevel(RunOf(i))
                THEN /\ Cardinality(holding) = 1
                     /\ \A n \in holding :
                            SweepGroups[n].label
                              = << "nu pre=", RunOf(i).nu_pre[1] >>
                ELSE /\ holding = {}
                     /\ \E n \in 1..Len(SweepBaseline) :
                            InSeq(i, SweepBaseline[n].runs)


----------------------------------------------------------------------------
(* Claims about base_plot (Spec) *)

\* the lists of one observable are as long as inverse_betas, and entry i
\* belongs to the i-th run file
AlignedWithRuns(name, values, errors) ==
    /\ Len(values) = Len(inverse_betas)
    /\ Len(errors) = Len(inverse_betas)
    /\ \A i \in 1..Len(values) :
           /\ name \in dir[i].meas
           /\ values[i] = SanitizeMean(SelectMean(dir[i].attrs[name]))

\* C16: in base_plot, after any number of run files, the value list and
\* the error list of every observable that was measured at all are as long
\* as inverse_betas and entry i of each list belongs to run i, also when
\* some files lack some observables.
C16_ObservableListsAlignedWithInverseBetas ==
    (fn = "base_plot" /\ pc # "read") =>
        /\ Len(inverse_betas) = idx
        /\ Len(energies) > 0 =>
               AlignedWithRuns(energy_name, energies, energies_errors)
        /\ Len(magnetizations) > 0 =>
               AlignedWithRuns(magnetization_name, magnetizations,
                               magnetizations_errors)
        /\ Len(energies_squared) > 0 =>
               AlignedWithRuns(energy_squared_name, energies_squared,
                               energies_squared_errors)
        /\ Len(magnetizations_squared) > 0 =>
               AlignedWithRuns(magnetization_squared_name,
                               magnetizations_squared,
                               magnetizations_squared_errors)


----------------------------------------------------------------------------
(* Claims about the per-run lists of info_plot (SpecInfo) *)

\* C17: in info_plot, after any prefix of the file list, the per-run lists
\* (the autocorrelation time, its bias and its statistical error, gamma,
\* system_size, tick_time, nu_pre_level1 and nu_post_level1) have one
\* length, one entry per run file read so far that has the observable, and
\* nu_pre_level1[i] is -1 exactly when run i has no level1 group.
C17_PerRunListsAligned ==
    LET n == Len(Measured(observable_name))
    IN  /\ Len(int_auto_correlation_time) = n
        /\ Len(int_auto_correlation_time_bias) = n
        /\ Len(int_auto_correlation_time_stat_error) = n
        /\ Len(gamma) = n
        /\ Len(system_size) = n
        /\ Len(tick_time) = n
        /\ Len(nu_pre_level1) = n
        /\ Len(nu_post_level1) = n
        /\ \A i \in 1..n :
               /\ nu_pre_level1[i] = -1 <=> ~IsMultilevel(RunOf(i))
               /\ system_size[i] = RunOf(i).h
               /\ gamma[i] = RunOf(i).gamma
               /\ tick_time[i] = RunOf(i).tick_time

\* three files were read, the second of which lacks the observable: the
\* lists hold two runs, a single-level one and a multilevel one
C17_Witness ==
    /\ pc = "scan" /\ idx = 3
    /\ observable_name \notin dir[2].meas
    /\ ~IsMultilevel(dir[1]) /\ IsMultilevel(dir[3])
    /\ nu_pre_level1 = << -1, 1 >>
    /\ Len(int_auto_correlation_time) = 2
    /\ Len(system_size) = 2

----------------------------------------------------------------------------
(* Claims about the figures of base_plot (Spec) *)

\* C18: base_plot never uses a comparison curve before it is computed: no
\* set of run files makes the squared-magnetization step fail on an
\* unbound m_exact, and the squared-energy step combines energies_squared
\* only with an energies list of the same length.
C18_ComparisonCurveBoundBeforeUse ==
    fn = "base_plot" =>
        /\ raised # "NameError"
        /\ (pc = "plot_magnetization_squared"
              /\ Len(magnetizations_squared) > 0) => m_exact.bound
        /\ (pc = "plot_energy_squared" /\ Len(energies_squared) > 0)
              => Len(energies) = Len(energies_squared)


----------------------------------------------------------------------------
(* Claims about the level count of                                         *)
(* crit_int_auto_correlation_plot_multiple_levels (Spec)                   *)

\* the number of consecutive coarse levels level1, level2, ... of a file
ConsecutiveLevels(file) ==
    CHOOSE n \in 0..9 : /\ \A l \in 1..n : l \in file.levels
                        /\ (n < 9 => (n + 1) \notin file.levels)

\* the points of the level figure
LevelPoints ==
    SelectSeq(drawn, LAMBDA a : a.artist = "errorbar")

\* C19: in crit_int_auto_correlation_plot_multiple_levels the level-count
\* scan of every run with 0 to 9 coarse levels ends without an index past
\* the end of the per-run level list and finds 1 + the number of
\* consecutive levels from level1 on; the function fails only for want of
\* runs, and the plotted points are the runs with more than one level.
C19_LevelScanStaysInBounds ==
    fn = "crit_int_auto_correlation_plot_multiple_levels" =>
        /\ \A i \in 1..Len(nu_pre_level_x) :
               LET scan == LevelScan(nu_pre_level_x[i], 0)
               IN  /\ ~scan.raise
                   /\ scan.length = 1 + ConsecutiveLevels(RunOf(i))
        /\ pc = "crashed" => Len(nu_pre_level_x) = 0
        /\ pc = "done" =>
               /\ Len(LevelPoints) = 1
               /\ LevelPoints[1].runs =
                      SelectSeq([ i \in 1..Len(nu_pre_level_x) |-> i ],
                                LAMBDA i : ConsecutiveLevels(RunOf(i)) > 0)

====
